---- MODULE Spec2Model ----
(***************************************************************************)
(* The deletion decision (should_delete), the page scan (to_delete_exists) *)
(* and the paging / deletion loop of unscrobbler() in src/Unscrobbler.py.  *)
(*                                                                         *)
(* The browser and the Last.fm site are the environment.  A library page   *)
(* is a sequence of rows in display order, held in one tracklist section;  *)
(* a successful delete click removes exactly the clicked row from the      *)
(* listing; a page keeps its rows otherwise.  A row handle is the row      *)
(* itself (its page, its original position and its texts).                 *)
(***************************************************************************)
EXTENDS Integers, Sequences, FiniteSets, TLC

\* ------------------------------------------------------------------ bounds
MaxRecords == 2
MaxPages == 2
MaxBudget == 2
MaxDeleteFails == 2

\* ------------------------------------------------------- program constants
MaxSubmitAttempts == 12
\* Python's None for the Optional[int] fields of UnscrobblerConfig
None == -1

VARIABLES
    cfg,               \* the UnscrobblerConfig of the run
    pc,                \* position of the control flow in unscrobbler()
    submit_attempts,   \* login submit attempts so far
    library_page_num,  \* the page cursor
    deletions,         \* the removal counter
    fixture,           \* the listing as first served: page -> rows (<<>> before the first fetch)
    site,              \* the live listing: page -> rows still present
    handles,           \* the rows found by the for loop's find_elements of the current pass
    row_num,           \* rows of `handles` consumed by the current pass
    next_button,       \* 0: unbound; p: the element found on page p
    log,               \* entries written to cfg.log_file, in order
    delete_requests,   \* delete click sequences that reached the driver
    scanned,           \* page numbers fetched by the outer loop, in order
    result,            \* "running", "EXIT_SUCCESS", "EXIT_ERROR" or "exception"
    session,           \* the Firefox session: "open" or "closed"
    first,             \* <<>>, or the outcome of a finished earlier run on the same fixture
    retry_state,       \* the delete retry loop on the current row: "fresh", "failed" (the
                       \* last attempt raised and nothing ran since) or "paused"
    args,              \* argparse's first_hr / last_hr in the command-line harness
    probe,             \* the row handed to should_delete in the evaluator harness
    verdict            \* the value should_delete returned for probe (read at pc = "evaluated")

vars == <<cfg, pc, submit_attempts, library_page_num, deletions, fixture, site,
          handles, row_num, next_button, log, delete_requests, scanned, result,
          session, first, retry_state, args, probe, verdict>>

\* ------------------------------------------------------------ environment
\* title attribute of a row's timestamp span -> what dateutil.parser.parse
\* makes of it; a string outside the table raises
ParseTable ==
    [s \in {"2021-06-01 10:00", "2021-06-01 23:00"} |->
        IF s = "2021-06-01 10:00" THEN [year |-> 2021, hour |-> 10]
                                   ELSE [year |-> 2021, hour |-> 23]]

CanParse(timestamp_string) == timestamp_string \in DOMAIN ParseTable

dateutil_parse(timestamp_string) == ParseTable[timestamp_string]

\* the texts a row of the listing can show
RowKinds ==
    { [track_name |-> "T1", artist_name |-> "A", timestamp_string |-> "2021-06-01 10:00"],
      [track_name |-> "T2", artist_name |-> "B", timestamp_string |-> "2021-06-01 23:00"],
      [track_name |-> "T3", artist_name |-> "A", timestamp_string |-> "garbled"] }

MkRow(p, i, k) ==
    [pg |-> p, pos |-> i, track_name |-> k.track_name, artist_name |-> k.artist_name,
     timestamp_string |-> k.timestamp_string]

\* the row sequences of lo..hi rows
PageContents(lo, hi) == UNION { [1..n -> RowKinds] : n \in lo..hi }

RECURSIVE TotalRows(_, _)
TotalRows(f, p) == IF p = 0 THEN 0 ELSE Len(f[p]) + TotalRows(f, p - 1)

\* a paginated listing of at most MaxRecords rows on at most MaxPages pages:
\* every page holds a row, unless the library is empty
Fixtures ==
    { <<rows>> : rows \in PageContents(0, MaxRecords) }
      \cup UNION { { f \in [1..np -> PageContents(1, MaxRecords - np + 1)] :
                       TotalRows(f, np) <= MaxRecords } : np \in 2..MaxPages }

Served(f) == [p \in 1..Len(f) |-> [i \in 1..Len(f[p]) |-> MkRow(p, i, f[p][i])]]

\* ----------------------------------------------------------- configuration
Filters ==
    { [delete_artists |-> {"A"}, delete_titles |-> {}, year |-> None,
       first_hr |-> None, last_hr |-> None],
      [delete_artists |-> {}, delete_titles |-> {"T2"}, year |-> None,
       first_hr |-> 22, last_hr |-> 2] }

Configs ==
    { [dry_run |-> d, delete_artists |-> f.delete_artists,
       delete_titles |-> f.delete_titles, max_removals |-> m, log_file |-> l,
       year |-> f.year, first_hr |-> f.first_hr, last_hr |-> f.last_hr,
       start_page |-> s, max_page |-> mp] :
        d \in BOOLEAN, f \in Filters, m \in 1..MaxBudget,
        l \in {"none", "open", "closed"},
        s \in {None} \cup (1..MaxPages), mp \in {None} \cup (1..MaxPages) }

\* ------------------------------------------------------- should_delete
use_hours == cfg.first_hr # None /\ cfg.last_hr # None
use_year == cfg.year # None
start_hour == cfg.first_hr
stop_hour == cfg.last_hr
year_to_use == cfg.year

should_delete_year_and_hours(track_name, artist_name, parsed_timestamp) ==
    LET matches == artist_name \in cfg.delete_artists \/ track_name \in cfg.delete_titles
        in_hours ==
            IF use_hours
            THEN IF start_hour > stop_hour
                 THEN parsed_timestamp.hour >= start_hour \/ parsed_timestamp.hour <= stop_hour
                 ELSE IF stop_hour > start_hour
                 THEN start_hour <= parsed_timestamp.hour /\ parsed_timestamp.hour <= stop_hour
                 ELSE parsed_timestamp.hour = start_hour
            ELSE TRUE
        in_year == IF use_year THEN parsed_timestamp.year = year_to_use ELSE TRUE
    IN  matches /\ in_hours /\ in_year

should_delete_strict_midnight(track_name, artist_name, parsed_timestamp) ==
    LET matches == artist_name \in cfg.delete_artists \/ track_name \in cfg.delete_titles
        by_hours ==
            IF use_hours
            THEN IF start_hour > stop_hour
                 THEN parsed_timestamp.hour > start_hour \/ parsed_timestamp.hour < stop_hour
                 ELSE IF stop_hour > start_hour
                 THEN start_hour <= parsed_timestamp.hour /\ parsed_timestamp.hour <= stop_hour
                 ELSE parsed_timestamp.hour = start_hour
            ELSE matches
        by_year == IF use_year THEN parsed_timestamp.year = year_to_use ELSE by_hours
    IN  IF matches THEN by_year ELSE FALSE

should_delete(track_name, artist_name, parsed_timestamp) ==
    LET matches == artist_name \in cfg.delete_artists \/ track_name \in cfg.delete_titles
        by_hours ==
            IF use_hours
            THEN IF start_hour > stop_hour
                 THEN parsed_timestamp.hour >= start_hour \/ parsed_timestamp.hour <= stop_hour
                 ELSE IF stop_hour > start_hour
                 THEN start_hour <= parsed_timestamp.hour /\ parsed_timestamp.hour <= stop_hour
                 ELSE parsed_timestamp.hour = start_hour
            ELSE matches
        by_year == IF use_year THEN parsed_timestamp.year = year_to_use ELSE by_hours
    IN  IF matches THEN by_year ELSE FALSE

RowMatches(row) ==
    should_delete(row.track_name, row.artist_name, dateutil_parse(row.timestamp_string))

\* ------------------------------------------------------ to_delete_exists
\* "error": a timestamp of a row reached by the scan does not parse
RECURSIVE ScanRows(_, _)
ScanRows(rows, i) ==
    IF i > Len(rows) THEN "false"
    ELSE IF ~CanParse(rows[i].timestamp_string) THEN "error"
    ELSE IF RowMatches(rows[i]) THEN "true"
    ELSE ScanRows(rows, i + 1)

to_delete_exists(rows) == ScanRows(rows, 1)

\* ------------------------------------------------------------------ helpers
\* Python truth value of an Optional[int]
Truthy(x) == x # None /\ x # 0

StartPage == IF Truthy(cfg.start_page) /\ cfg.start_page > 0 THEN cfg.start_page ELSE 1

RECURSIVE Without(_, _)
Without(rows, row) ==
    IF rows = <<>> THEN <<>>
    ELSE IF Head(rows) = row THEN Tail(rows)
    ELSE <<Head(rows)>> \o Without(Tail(rows), row)

LogEntry(row) ==
    [track_title |-> row.track_name, artist_name |-> row.artist_name,
     timestamp |-> row.timestamp_string,
     timestamp_parsed |-> dateutil_parse(row.timestamp_string),
     pg |-> row.pg, pos |-> row.pos]

CurrentRow == handles[row_num]

\* an exception leaves unscrobbler() and the driver is not quit
Raise_LeavesOpen ==
    /\ pc' = "error"
    /\ result' = "exception"
    /\ session' = session

\* an exception leaves unscrobbler() through the with block
Raise ==
    /\ pc' = "error"
    /\ result' = "exception"
    /\ session' = "closed"

\* lines 241-243
Return ==
    /\ pc' = "done"
    /\ result' = "EXIT_SUCCESS"
    /\ session' = "closed"

HarnessIdle == UNCHANGED <<first, args, probe, verdict>>

Harness == HarnessIdle /\ UNCHANGED retry_state

\* --------------------------------------------------------------------- Init
Init ==
    /\ cfg \in Configs
    /\ pc = "login"
    /\ submit_attempts = 0
    /\ library_page_num = StartPage
    /\ deletions = 0
    /\ fixture = <<>>
    /\ site = <<>>
    /\ handles = <<>>
    /\ row_num = 0
    /\ next_button = 0
    /\ log = <<>>
    /\ delete_requests = 0
    /\ scanned = <<>>
    /\ result = "running"
    /\ session = "open"
    /\ first = <<>>
    /\ retry_state = "fresh"
    /\ args = <<>>
    /\ probe = <<>>
    /\ verdict = FALSE

\* ------------------------------------------------------------------- login
\* lines 145-149: the submit click succeeds
SubmitOk ==
    /\ pc = "login"
    /\ submit_attempts' = 0      \* not read after the loop
    /\ pc' = "outer"
    /\ UNCHANGED <<cfg, library_page_num, deletions, fixture, site, handles, row_num,
                   next_button, log, delete_requests, scanned, result, session>>
    /\ Harness

\* the attempt limit compared with > instead of >=
SubmitFail_OneMore ==
    /\ pc = "login"
    /\ submit_attempts' = submit_attempts + 1
    /\ IF submit_attempts + 1 > MaxSubmitAttempts
       THEN /\ pc' = "failed"
            /\ result' = "EXIT_ERROR"
            /\ session' = "closed"
       ELSE UNCHANGED <<pc, result, session>>
    /\ UNCHANGED <<cfg, library_page_num, deletions, fixture, site, handles, row_num,
                   next_button, log, delete_requests, scanned>>
    /\ Harness

\* lines 145-157: the submit click raises
SubmitFail ==
    /\ pc = "login"
    /\ submit_attempts' = submit_attempts + 1
    /\ IF submit_attempts + 1 >= MaxSubmitAttempts
       THEN /\ pc' = "failed"
            /\ result' = "EXIT_ERROR"
            /\ session' = "closed"
       ELSE UNCHANGED <<pc, result, session>>
    /\ UNCHANGED <<cfg, library_page_num, deletions, fixture, site, handles, row_num,
                   next_button, log, delete_requests, scanned>>
    /\ Harness

\* -------------------------------------------------------------- outer loop
\* line 159 true, lines 160-164: fetch the page the cursor names.  The first
\* fetch reveals the listing.
OuterLoop ==
    /\ pc = "outer"
    /\ deletions < cfg.max_removals
    /\ IF fixture = <<>>
       THEN \E f \in Fixtures :
               /\ library_page_num <= Len(f)
               /\ fixture' = f
               /\ site' = Served(f)
       ELSE UNCHANGED <<fixture, site>>
    /\ scanned' = Append(scanned, library_page_num)
    /\ pc' = "scan"
    /\ UNCHANGED <<cfg, submit_attempts, library_page_num, deletions, handles, row_num,
                   next_button, log, delete_requests, result, session>>
    /\ Harness

\* line 159 false: leave the loop, lines 241-243
OuterExit ==
    /\ pc = "outer"
    /\ ~(deletions < cfg.max_removals)
    /\ Return
    /\ UNCHANGED <<cfg, submit_attempts, library_page_num, deletions, fixture, site,
                   handles, row_num, next_button, log, delete_requests, scanned>>
    /\ Harness

\* ------------------------------------------------------- inner while, line 165
\* the rows the for loop of lines 168-179 iterates over
PassHandles_Cached == IF handles = <<>> THEN site[library_page_num] ELSE handles

PassHandles == site[library_page_num]

\* line 165 true, lines 166-179: a pass over the page starts
ScanFound ==
    /\ pc = "scan"
    /\ to_delete_exists(site[library_page_num]) = "true"
    /\ deletions < cfg.max_removals
    /\ handles' = PassHandles
    /\ row_num' = 0
    /\ pc' = "row"
    /\ UNCHANGED <<cfg, submit_attempts, library_page_num, deletions, fixture, site,
                   next_button, log, delete_requests, scanned, result, session>>
    /\ Harness

\* the page is left whatever the scan found
ScanClean_Unguarded ==
    /\ pc = "scan"
    /\ to_delete_exists(site[library_page_num]) # "error"
    /\ pc' = "advance"
    /\ UNCHANGED <<cfg, submit_attempts, library_page_num, deletions, fixture, site,
                   handles, row_num, next_button, log, delete_requests, scanned, result,
                   session>>
    /\ Harness

\* line 165 false: on to the next-page decision
ScanClean ==
    /\ pc = "scan"
    /\ \/ to_delete_exists(site[library_page_num]) = "false"
       \/ /\ to_delete_exists(site[library_page_num]) = "true"
          /\ ~(deletions < cfg.max_removals)
    /\ pc' = "advance"
    /\ UNCHANGED <<cfg, submit_attempts, library_page_num, deletions, fixture, site,
                   handles, row_num, next_button, log, delete_requests, scanned, result,
                   session>>
    /\ Harness

\* line 126 raises inside to_delete_exists
ScanError ==
    /\ pc = "scan"
    /\ to_delete_exists(site[library_page_num]) = "error"
    /\ Raise
    /\ UNCHANGED <<cfg, submit_attempts, library_page_num, deletions, fixture, site,
                   handles, row_num, next_button, log, delete_requests, scanned>>
    /\ Harness

\* --------------------------------------------------- the pass, lines 179-197
\* line 180
RowBudgetSpent_Unchecked == FALSE

RowBudgetSpent == deletions >= cfg.max_removals

\* the for loop ends (rows exhausted, or the break of line 181 and then of
\* line 173); line 227 fetches the page again
PassEnd ==
    /\ pc = "row"
    /\ row_num >= Len(handles) \/ RowBudgetSpent
    /\ pc' = "scan"
    /\ UNCHANGED <<cfg, submit_attempts, library_page_num, deletions, fixture, site,
                   handles, row_num, next_button, log, delete_requests, scanned, result,
                   session>>
    /\ Harness

\* lines 183-197: the next row does not qualify
RowKeep ==
    /\ pc = "row"
    /\ row_num < Len(handles) /\ ~RowBudgetSpent
    /\ CanParse(handles[row_num + 1].timestamp_string)
    /\ ~RowMatches(handles[row_num + 1])
    /\ row_num' = row_num + 1
    /\ UNCHANGED <<cfg, pc, submit_attempts, library_page_num, deletions, fixture, site,
                   handles, next_button, log, delete_requests, scanned, result, session>>
    /\ Harness

\* lines 183-204: the next row qualifies
RowSelect ==
    /\ pc = "row"
    /\ row_num < Len(handles) /\ ~RowBudgetSpent
    /\ CanParse(handles[row_num + 1].timestamp_string)
    /\ RowMatches(handles[row_num + 1])
    /\ row_num' = row_num + 1
    /\ pc' = "delete"
    /\ UNCHANGED <<cfg, submit_attempts, library_page_num, deletions, fixture, site,
                   handles, next_button, log, delete_requests, scanned, result, session>>
    /\ Harness

\* the unparsable row is passed over
RowParseError_Skips ==
    /\ pc = "row"
    /\ row_num < Len(handles) /\ ~RowBudgetSpent
    /\ ~CanParse(handles[row_num + 1].timestamp_string)
    /\ row_num' = row_num + 1
    /\ UNCHANGED <<cfg, pc, submit_attempts, library_page_num, deletions, fixture, site,
                   handles, next_button, log, delete_requests, scanned, result, session>>
    /\ Harness

\* line 194 raises
RowParseError ==
    /\ pc = "row"
    /\ row_num < Len(handles) /\ ~RowBudgetSpent
    /\ ~CanParse(handles[row_num + 1].timestamp_string)
    /\ row_num' = row_num + 1
    /\ Raise
    /\ UNCHANGED <<cfg, submit_attempts, library_page_num, deletions, fixture, site,
                   handles, next_button, log, delete_requests, scanned>>
    /\ Harness

\* ------------------------------------------------ delete, lines 205-217
\* line 207
IssuesClicks_Always == TRUE

IssuesClicks == ~cfg.dry_run

\* lines 206-207, 214: a dry run breaks out without touching the driver
DeleteDryRun ==
    /\ pc = "delete"
    /\ ~IssuesClicks
    /\ pc' = "log"
    /\ UNCHANGED <<cfg, submit_attempts, library_page_num, deletions, fixture, site,
                   handles, row_num, next_button, log, delete_requests, scanned, result,
                   session>>
    /\ Harness

\* lines 208-214: both clicks go through; the site drops the row
DeleteOk ==
    /\ pc = "delete"
    /\ IssuesClicks
    /\ delete_requests' = delete_requests + 1
    /\ site' = [site EXCEPT ![CurrentRow.pg] = Without(@, CurrentRow)]
    /\ pc' = "log"
    /\ retry_state' = "fresh"
    /\ UNCHANGED <<cfg, submit_attempts, library_page_num, deletions, fixture, handles,
                   row_num, next_button, log, scanned, result, session>>
    /\ HarnessIdle

\* the loop left although a click raised
DeleteFail_GivesUp ==
    /\ pc = "delete"
    /\ IssuesClicks
    /\ delete_requests - (TotalRows(fixture, Len(fixture)) - TotalRows(site, Len(site)))
         < MaxDeleteFails
    /\ delete_requests' = delete_requests + 1
    /\ pc' = "log"
    /\ retry_state' = "fresh"
    /\ UNCHANGED <<cfg, submit_attempts, library_page_num, deletions, fixture, site,
                   handles, row_num, next_button, log, scanned, result, session>>
    /\ HarnessIdle

\* the exception of a click is let through
DeleteFail_Escalates ==
    /\ pc = "delete"
    /\ IssuesClicks
    /\ delete_requests - (TotalRows(fixture, Len(fixture)) - TotalRows(site, Len(site)))
         < MaxDeleteFails
    /\ delete_requests' = delete_requests + 1
    /\ retry_state' = "failed"
    /\ Raise
    /\ UNCHANGED <<cfg, submit_attempts, library_page_num, deletions, fixture, site,
                   handles, row_num, next_button, log, scanned>>
    /\ HarnessIdle

\* lines 208-217: a click raises; the except clause logs and the loop goes round
DeleteFail ==
    /\ pc = "delete"
    /\ IssuesClicks
    /\ delete_requests - (TotalRows(fixture, Len(fixture)) - TotalRows(site, Len(site)))
         < MaxDeleteFails
    /\ delete_requests' = delete_requests + 1
    /\ retry_state' = "failed"      \* lines 215-217 hold no time.sleep
    /\ UNCHANGED <<cfg, pc, submit_attempts, library_page_num, deletions, fixture, site,
                   handles, row_num, next_button, log, scanned, result, session>>
    /\ HarnessIdle

\* ------------------------------------------ log and count, lines 219-225
\* lines 53-54
LogIsNoOp == cfg.log_file = "none" \/ cfg.log_file = "closed"

\* lines 52-55: the entry is written, or the call is a no-op
LogItem ==
    /\ pc = "log"
    /\ log' = IF LogIsNoOp THEN log ELSE Append(log, LogEntry(CurrentRow))
    /\ pc' = "count"
    /\ UNCHANGED <<cfg, submit_attempts, library_page_num, deletions, fixture, site,
                   handles, row_num, next_button, delete_requests, scanned, result,
                   session>>
    /\ Harness

\* line 55 raises (the write fails); nothing catches it
LogItemRaises ==
    /\ pc = "log"
    /\ ~LogIsNoOp
    /\ Raise
    /\ UNCHANGED <<cfg, submit_attempts, library_page_num, deletions, fixture, site,
                   handles, row_num, next_button, log, delete_requests, scanned>>
    /\ Harness

\* line 225
Count ==
    /\ pc = "count"
    /\ deletions' = deletions + 1
    /\ pc' = "row"
    /\ UNCHANGED <<cfg, submit_attempts, library_page_num, fixture, site, handles,
                   row_num, next_button, log, delete_requests, scanned, result, session>>
    /\ Harness

\* ------------------------------------------------ advancing, lines 229-239
\* line 230 finds the element
HasNextPage == library_page_num < Len(site)

\* next_button after lines 229-233
NextButtonNow == IF HasNextPage THEN library_page_num ELSE next_button

\* the comparison of line 234 made strict
MaxPageReached_Strict == Truthy(cfg.max_page) /\ library_page_num > cfg.max_page

\* line 234
MaxPageReached == Truthy(cfg.max_page) /\ library_page_num >= cfg.max_page

\* lines 234-236, then 241-243
AdvanceMaxPage ==
    /\ pc = "advance"
    /\ MaxPageReached
    /\ next_button' = NextButtonNow
    /\ Return
    /\ UNCHANGED <<cfg, submit_attempts, library_page_num, deletions, fixture, site,
                   handles, row_num, log, delete_requests, scanned>>
    /\ Harness

\* lines 238-239 with the element of this page
AdvanceNext ==
    /\ pc = "advance"
    /\ ~MaxPageReached
    /\ HasNextPage
    /\ next_button' = NextButtonNow
    /\ library_page_num' = library_page_num + 1
    /\ pc' = "outer"
    /\ UNCHANGED <<cfg, submit_attempts, deletions, fixture, site, handles, row_num, log,
                   delete_requests, scanned, result, session>>
    /\ Harness

\* lines 232-233 and then 238-239: next_button is unbound (UnboundLocalError)
\* or belongs to an earlier page (stale element); line 239 raises
AdvanceNoNext ==
    /\ pc = "advance"
    /\ ~MaxPageReached
    /\ ~HasNextPage
    /\ next_button' = NextButtonNow
    /\ library_page_num' = library_page_num + 1
    /\ Raise
    /\ UNCHANGED <<cfg, submit_attempts, deletions, fixture, site, handles, row_num, log,
                   delete_requests, scanned>>
    /\ Harness

\* --------------------------------------------------------------------- Next
Next ==
    \/ SubmitOk
    \/ SubmitFail
    \/ OuterLoop
    \/ OuterExit
    \/ ScanFound
    \/ ScanClean
    \/ ScanError
    \/ PassEnd
    \/ RowKeep
    \/ RowSelect
    \/ RowParseError
    \/ DeleteDryRun
    \/ DeleteOk
    \/ DeleteFail
    \/ LogItem
    \/ LogItemRaises
    \/ Count
    \/ AdvanceMaxPage
    \/ AdvanceNext
    \/ AdvanceNoNext

Spec == Init /\ [][Next]_vars

\* ------------------------------------------------- the same fixture, twice
\* A finished real run is followed by a dry run with the same configuration
\* on the listing as it was first served (lines 332-346 called again with
\* dry_run set); the first run's counter and log are kept for comparison.
Rerun ==
    /\ pc = "done"
    /\ ~cfg.dry_run
    /\ first = <<>>
    /\ first' = <<[deletions |-> deletions, log |-> log]>>
    /\ cfg' = [cfg EXCEPT !.dry_run = TRUE]
    /\ pc' = "login"
    /\ library_page_num' = StartPage
    /\ deletions' = 0
    /\ site' = Served(fixture)
    /\ handles' = <<>>
    /\ row_num' = 0
    /\ next_button' = 0
    /\ log' = <<>>
    /\ delete_requests' = 0
    /\ scanned' = <<>>
    /\ result' = "running"
    /\ session' = "open"
    /\ UNCHANGED <<submit_attempts, fixture, retry_state, args, probe, verdict>>

NextCompare == Next \/ Rerun

SpecCompare == Init /\ [][NextCompare]_vars

\* ------------------------------------------- should_delete on its own
Hours == 0..23

EvalHourFlags == (Hours \X Hours) \cup {<<None, None>>, <<None, 5>>, <<5, None>>}

EvalConfigs ==
    { [dry_run |-> TRUE, delete_artists |-> {"A"}, delete_titles |-> {"T1"},
       max_removals |-> 1, log_file |-> "none", year |-> y, first_hr |-> hf[1],
       last_hr |-> hf[2], start_page |-> None, max_page |-> None] :
        y \in {None, 2019}, hf \in EvalHourFlags }

EvalProbes ==
    { [track_name |-> t, artist_name |-> a, parsed_timestamp |-> [year |-> y, hour |-> h]] :
        t \in {"T1", "T2"}, a \in {"A", "B"}, y \in {2019, 2020}, h \in Hours }

InitShouldDelete ==
    /\ cfg \in EvalConfigs
    /\ probe \in EvalProbes
    /\ verdict = FALSE
    /\ pc = "evaluate"
    /\ submit_attempts = 0
    /\ library_page_num = 1
    /\ deletions = 0
    /\ fixture = <<>>
    /\ site = <<>>
    /\ handles = <<>>
    /\ row_num = 0
    /\ next_button = 0
    /\ log = <<>>
    /\ delete_requests = 0
    /\ scanned = <<>>
    /\ result = "running"
    /\ session = "closed"
    /\ first = <<>>
    /\ retry_state = "fresh"
    /\ args = <<>>

\* one call of should_delete, lines 80-102
Evaluate ==
    /\ pc = "evaluate"
    /\ verdict' = should_delete(probe.track_name, probe.artist_name, probe.parsed_timestamp)
    /\ pc' = "evaluated"
    /\ UNCHANGED <<cfg, submit_attempts, library_page_num, deletions, fixture, site,
                   handles, row_num, next_button, log, delete_requests, scanned, result,
                   session, first, retry_state, args, probe>>

SpecShouldDelete == InitShouldDelete /\ [][Evaluate]_vars

\* ------------------------------------- the hour flags on the command line
\* a flag of type int with default None: <<>> when absent, <<v>> when given
HourArgs == {<<>>} \cup { <<v>> : v \in (-2)..25 }

ArgValue(a) == IF a = <<>> THEN None ELSE a[1]

\* Python truth value of the parsed flag
ArgTruthy(a) == a # <<>> /\ a[1] # 0

\* line 291
HoursNotTogether ==
    \/ ArgTruthy(args.first_hr) /\ ~ArgTruthy(args.last_hr)
    \/ ArgTruthy(args.last_hr) /\ ~ArgTruthy(args.first_hr)

\* lines 294-295
HoursOutOfRange ==
    \/ ArgTruthy(args.first_hr) /\ (args.first_hr[1] < 0 \/ args.first_hr[1] > 23)
    \/ ArgTruthy(args.last_hr) /\ (args.last_hr[1] < 0 \/ args.last_hr[1] > 23)

InitCli ==
    /\ args \in [first_hr : HourArgs, last_hr : HourArgs]
    /\ cfg = [dry_run |-> TRUE, delete_artists |-> {"A"}, delete_titles |-> {},
              max_removals |-> 1, log_file |-> "none", year |-> None, first_hr |-> None,
              last_hr |-> None, start_page |-> 1, max_page |-> None]
    /\ pc = "cli"
    /\ submit_attempts = 0
    /\ library_page_num = 1
    /\ deletions = 0
    /\ fixture = <<>>
    /\ site = <<>>
    /\ handles = <<>>
    /\ row_num = 0
    /\ next_button = 0
    /\ log = <<>>
    /\ delete_requests = 0
    /\ scanned = <<>>
    /\ result = "running"
    /\ session = "closed"
    /\ first = <<>>
    /\ retry_state = "fresh"
    /\ probe = <<>>
    /\ verdict = FALSE

\* lines 291-297: one of the two checks fails, sys.exit(EXIT_ERROR)
CliExit ==
    /\ pc = "cli"
    /\ HoursNotTogether \/ HoursOutOfRange
    /\ pc' = "cli_exit"
    /\ result' = "EXIT_ERROR"
    /\ UNCHANGED <<cfg, submit_attempts, library_page_num, deletions, fixture, site,
                   handles, row_num, next_button, log, delete_requests, scanned, session>>
    /\ Harness

\* lines 291-297 pass; lines 332-346 hand the flags to the core
CliRun ==
    /\ pc = "cli"
    /\ ~(HoursNotTogether \/ HoursOutOfRange)
    /\ cfg' = [cfg EXCEPT !.first_hr = ArgValue(args.first_hr),
                          !.last_hr = ArgValue(args.last_hr)]
    /\ pc' = "cli_core"
    /\ UNCHANGED <<submit_attempts, library_page_num, deletions, fixture, site, handles,
                   row_num, next_button, log, delete_requests, scanned, result, session>>
    /\ Harness

NextCli == CliExit \/ CliRun

SpecCli == InitCli /\ [][NextCli]_vars

\* ================================================================== claims
\* observers used by the properties below
Range(seq) == { seq[i] : i \in 1..Len(seq) }
InPass == pc \in {"row", "delete", "log", "count"}
Loaded == fixture # <<>>
Removed == IF Loaded THEN TotalRows(fixture, Len(fixture)) - TotalRows(site, Len(site)) ELSE 0
NextMatches ==
    /\ row_num < Len(handles)
    /\ CanParse(handles[row_num + 1].timestamp_string)
    /\ RowMatches(handles[row_num + 1])

\* C1: the removal counter and the number of rows actually removed never
\* exceed max_removals; a delete is only ever pending while budget is left;
\* and from a state with deletions = max_removals no step selects a row for
\* deletion, issues a delete request or changes the listing.
C1_BudgetInvariant ==
    /\ [](/\ deletions <= cfg.max_removals
          /\ Removed <= cfg.max_removals
          /\ pc \in {"delete", "log", "count"} => deletions < cfg.max_removals)
    /\ [][deletions = cfg.max_removals =>
            /\ pc' \notin {"delete", "log", "count"}
            /\ delete_requests' = delete_requests
            /\ site' = site
            /\ log' = log]_vars

\* C1 witness: the budget is spent in the middle of a pass of a real run
\* while the next row of the page still qualifies.
C1_Witness ==
    /\ pc = "row"
    /\ ~cfg.dry_run
    /\ deletions = cfg.max_removals
    /\ NextMatches
    /\ handles[row_num + 1] \in Range(site[library_page_num])

C3_LastPageEndsDone ==
    [][pc = "advance" /\ ~HasNextPage =>
          /\ pc' = "done"
          /\ result' = "EXIT_SUCCESS"
          /\ library_page_num' = library_page_num]_vars

\* C4: in a dry run no delete click sequence reaches the driver and the
\* listing stays as it was served.
C4_DryRunNoMutation ==
    cfg.dry_run => delete_requests = 0 /\ (Loaded => site = Served(fixture))

\* C4 witness: a dry run has walked a qualifying row through delete, log and
\* count.
C4_Witness ==
    /\ cfg.dry_run
    /\ deletions > 0
    /\ pc = "row"

\* C5: a dry run that follows a real run on the same fixture with the same
\* filter, pages and budget finishes with the real run's counter and log.
C5_DryRunSameBookkeeping ==
    first # <<>> /\ pc = "done" =>
        /\ deletions = first[1].deletions
        /\ log = first[1].log

\* the qualifying rows of the pages the run fetched, in scan order
RECURSIVE Qualifying(_, _)
Qualifying(pages, p) ==
    IF p = 0 THEN <<>>
    ELSE LET Q(r) == CanParse(r.timestamp_string) /\ RowMatches(r)
         IN  Qualifying(pages, p - 1)
               \o (IF p \in Range(scanned) THEN SelectSeq(pages[p], Q) ELSE <<>>)

WalkedQualifying == IF Loaded THEN Qualifying(Served(fixture), Len(fixture)) ELSE <<>>

\* C6: only qualifying rows are ever selected for deletion or logged, and a
\* run that ends with a budget of at least the number of qualifying rows on
\* the pages it walked has counted and logged each of them exactly once.
C6_ExactDeletionSet ==
    /\ pc \in {"delete", "log", "count"} => RowMatches(CurrentRow)
    /\ \A i \in 1..Len(log) :
          should_delete(log[i].track_title, log[i].artist_name, log[i].timestamp_parsed)
    /\ pc = "done" /\ cfg.max_removals >= Len(WalkedQualifying) =>
          /\ deletions = Len(WalkedQualifying)
          /\ cfg.log_file = "open" =>
                log = [i \in 1..Len(WalkedQualifying) |-> LogEntry(WalkedQualifying[i])]

\* the row matches the artist or title list
ProbeMatches ==
    probe.artist_name \in cfg.delete_artists \/ probe.track_name \in cfg.delete_titles

C8_HourRange ==
    pc = "evaluated" /\ ProbeMatches /\ cfg.first_hr # None /\ cfg.last_hr # None
        /\ cfg.year = None
      => LET h == probe.parsed_timestamp.hour
             inside == IF cfg.first_hr > cfg.last_hr
                       THEN h \notin (cfg.last_hr + 1)..(cfg.first_hr - 1)
                       ELSE h \in cfg.first_hr..cfg.last_hr
         IN  /\ verdict = inside
             /\ cfg.first_hr = 22 /\ cfg.last_hr = 2 /\ h = 23 => verdict = TRUE
             /\ cfg.first_hr = 22 /\ cfg.last_hr = 2 /\ h = 3 => verdict = FALSE
             /\ cfg.first_hr = 5 /\ cfg.last_hr = 5 /\ h = 5 => verdict = TRUE
             /\ cfg.first_hr = 5 /\ cfg.last_hr = 5 /\ h = 6 => verdict = FALSE

\* C8 witness: range (22,2), no year; a matching row at 22:00, the first
\* hour of the range, is deleted.
C8_Witness ==
    /\ pc = "evaluated"
    /\ ProbeMatches
    /\ cfg.first_hr = 22 /\ cfg.last_hr = 2 /\ cfg.year = None
    /\ probe.parsed_timestamp.hour = 22
    /\ verdict = TRUE

\* the row a log entry is about is still in the listing
StillListed(e) == \E r \in Range(site[e.pg]) : r.pos = e.pos

\* C9, as claimed: in every run, every logged row has been deleted from
\* the listing.
C9_LoggedOnlyAfterDeleted ==
    \A i \in 1..Len(log) : ~StillListed(log[i])

\* C9, amended: in every real (non-dry) run, every logged row has been
\* deleted from the listing, and the log never holds more entries than rows
\* were removed; an entry is appended only by the step that follows the
\* successful delete of that row.
C9_LogAfterConfirm ==
    /\ [](~cfg.dry_run =>
            /\ \A i \in 1..Len(log) : ~StillListed(log[i])
            /\ Len(log) <= Removed)
    /\ [][~cfg.dry_run /\ log' # log =>
            /\ pc = "log"
            /\ CurrentRow \notin Range(site[CurrentRow.pg])
            /\ log' = Append(log, LogEntry(CurrentRow))]_vars

\* C9 witness: a real run has deleted a row and just written its log entry.
C9_Witness ==
    /\ ~cfg.dry_run
    /\ pc = "count"
    /\ log # <<>>
    /\ log[Len(log)] = LogEntry(CurrentRow)
    /\ ~StillListed(log[Len(log)])

\* C10: the log call never ends the loop: from the log step the run always
\* goes on to count the deletion, and with no log file, or a closed one, the
\* call leaves the log as it is.
C10_LogFailureNotFatal ==
    [][pc = "log" =>
          /\ pc' = "count"
          /\ result' = "running"
          /\ LogIsNoOp => log' = log]_vars

\* C11: at most 12 submit attempts are made; the run returns EXIT_ERROR
\* exactly when the 12th attempt in a row has failed; a submit that succeeds
\* (on attempt 1..12) moves on to the paging loop; and while no submit has
\* succeeded no page has been fetched and nothing deleted, counted or logged.
C11_BoundedLoginRetry ==
    /\ [](/\ submit_attempts <= MaxSubmitAttempts
          /\ result = "EXIT_ERROR" <=> pc = "failed"
          /\ pc = "failed" <=> submit_attempts = MaxSubmitAttempts
          /\ pc \in {"login", "failed"} =>
                /\ scanned = <<>> /\ fixture = <<>>
                /\ deletions = 0 /\ delete_requests = 0 /\ log = <<>>)
    /\ [][pc = "login" =>
            \/ /\ pc' = "login"
               /\ submit_attempts' = submit_attempts + 1
               /\ submit_attempts' < MaxSubmitAttempts
            \/ /\ pc' = "failed"
               /\ submit_attempts = MaxSubmitAttempts - 1
            \/ /\ pc' = "outer"
               /\ submit_attempts < MaxSubmitAttempts
               /\ result' = "running"]_vars

\* C11 witness: the 12th submit attempt has failed and the run has returned
\* the error exit code.
C11_Witness ==
    /\ pc = "failed"
    /\ submit_attempts = 12
    /\ result = "EXIT_ERROR"

\* C12: the command line accepts a pair of hour flags and the core filters
\* by hour exactly when both flags are given and both are in 0..23 (0
\* included); it exits with EXIT_ERROR before the core runs when only one of
\* the two is given or one of them is outside 0..23.
C12_HourFlagValidation ==
    pc \in {"cli_exit", "cli_core"} =>
        LET f == args.first_hr
            l == args.last_hr
            InRange(a) == a # <<>> /\ a[1] \in 0..23
            oneOnly == (f = <<>>) # (l = <<>>)
            outside == (f # <<>> /\ ~InRange(f)) \/ (l # <<>> /\ ~InRange(l))
        IN  /\ (InRange(f) /\ InRange(l)) <=> (pc = "cli_core" /\ use_hours)
            /\ (oneOnly \/ outside) => (pc = "cli_exit" /\ result = "EXIT_ERROR")

\* C13: with max_page configured, the decision taken after a page whose
\* number has reached max_page is always Done with the success exit code: the
\* cursor stays, no further page is fetched, and a finished run has fetched
\* no page after the first one at or beyond max_page.
C13_MaxPageStop ==
    /\ [][pc = "advance" /\ cfg.max_page # None /\ library_page_num >= cfg.max_page =>
            /\ pc' = "done"
            /\ result' = "EXIT_SUCCESS"
            /\ library_page_num' = library_page_num
            /\ scanned' = scanned]_vars
    /\ [](cfg.max_page # None =>
            \A i \in 1..Len(scanned) :
                scanned[i] >= cfg.max_page => i = Len(scanned))

\* C13 witness: the run ended at max_page with budget left while a later
\* page still shows a qualifying row.
C13_Witness ==
    /\ pc = "done"
    /\ cfg.max_page # None
    /\ library_page_num = cfg.max_page
    /\ deletions < cfg.max_removals
    /\ \E p \in (library_page_num + 1)..Len(site) : to_delete_exists(site[p]) = "true"

\* C14: a step taken while a delete is pending is either a failed attempt,
\* which leaves the controller on the same row of the same pass and page with
\* the counter, the log and the listing as they were and the run still
\* running, or the step that ends the retry loop (both clicks went through
\* and the row is gone, or the dry-run skip) and goes on to log that row; and
\* after a failed attempt the controller is still at that row, which is still
\* in the listing.
C14_RetryInPlace ==
    /\ [][pc = "delete" =>
            \/ /\ pc' = "delete"
               /\ delete_requests' = delete_requests + 1
               /\ retry_state' = "failed"
               /\ result' = "running"
               /\ UNCHANGED <<site, handles, row_num, library_page_num, deletions, log,
                              scanned>>
            \/ /\ pc' = "log"
               /\ cfg.dry_run \/ CurrentRow \notin Range(site'[CurrentRow.pg])
               /\ UNCHANGED <<handles, row_num, library_page_num, deletions, log>>]_vars
    /\ [](retry_state = "failed" =>
            /\ pc = "delete"
            /\ result = "running"
            /\ CurrentRow \in Range(site[CurrentRow.pg]))

\* C14 witness: the delete of the first selected row has failed twice and
\* the controller is about to try the same row again.
C14_Witness ==
    /\ pc = "delete"
    /\ retry_state = "failed"
    /\ delete_requests = 2
    /\ Removed = 0
    /\ deletions = 0

\* C15: a delete attempt is never issued in the step that follows a failed
\* delete attempt: some pause step lies between the two.
C15_PauseBetweenRetries ==
    [][delete_requests' = delete_requests + 1 => retry_state # "failed"]_vars

\* C16: the next-page / max-page decision is entered only from the scan of
\* line 165, with the listing and the cursor as that scan saw them, and
\* whenever the controller is at that decision either every row of the page
\* parses and none qualifies, or the budget is spent.
C16_LeftCleanOrSpent ==
    /\ [](pc = "advance" =>
            \/ /\ to_delete_exists(site[library_page_num]) = "false"
               /\ \A r \in Range(site[library_page_num]) :
                     CanParse(r.timestamp_string) /\ ~RowMatches(r)
            \/ deletions = cfg.max_removals)
    /\ [][pc' = "advance" /\ pc # "advance" =>
            /\ pc = "scan"
            /\ UNCHANGED <<site, library_page_num, deletions>>]_vars

\* C16 witness: a real run leaves a page it has deleted from, with budget
\* left: the page no longer shows a qualifying record.
C16_Witness ==
    /\ pc = "advance"
    /\ ~cfg.dry_run
    /\ deletions < cfg.max_removals
    /\ \E e \in Range(log) : e.pg = library_page_num
    /\ Len(site[library_page_num]) > 0

\* C17 as stated: the controller never gets past the scan of a page that
\* holds a row whose timestamp cannot be parsed.
C17_AnyBadRowEndsRun ==
    pc = "advance" =>
        \A r \in Range(site[library_page_num]) : CanParse(r.timestamp_string)

\* C17, amended: an unparsable row ends the run when it is reached.  A scan
\* that meets one before any qualifying row, and a pass whose next row is
\* one while budget remains, raise: the run ends with the exception and the
\* step makes no deletion request and no log entry; nothing happens after
\* the error; and every row a pass has walked past was parsed.
C17_ReachedBadRowEndsRun ==
    /\ [][pc = "scan" /\ to_delete_exists(site[library_page_num]) = "error" =>
            /\ pc' = "error"
            /\ result' = "exception"
            /\ UNCHANGED <<site, log, deletions, delete_requests>>]_vars
    /\ [][/\ pc = "row"
          /\ row_num < Len(handles)
          /\ deletions < cfg.max_removals
          /\ ~CanParse(handles[row_num + 1].timestamp_string)
          => /\ pc' = "error"
             /\ result' = "exception"
             /\ UNCHANGED <<site, log, deletions, delete_requests>>]_vars
    /\ [][pc # "error"]_vars
    /\ [](pc \in {"row", "delete", "log", "count"} =>
            \A j \in 1..row_num : CanParse(handles[j].timestamp_string))

\* C17 witness: a real run has deleted a record and then met an unparsable
\* row in the same pass; the run has ended with the exception.
C17_Witness ==
    /\ pc = "error"
    /\ result = "exception"
    /\ ~cfg.dry_run
    /\ Removed > 0
    /\ row_num >= 2
    /\ ~CanParse(handles[row_num].timestamp_string)

\* C18: the driver session is open exactly while unscrobbler() is running:
\* it is closed in every state in which the function has returned or raised
\* (normal completion, the login-failure return, a propagated error), open in
\* every other state, and once closed it is never opened again.
C18_SessionScoped ==
    /\ [](session \in {"open", "closed"})
    /\ [](session = "closed" <=> pc \in {"done", "failed", "error"})
    /\ [](session = "closed" <=> result # "running")
    /\ [][session' = "open" => session = "open"]_vars

\* C18 witness: an exception has propagated out of a real run that had
\* already deleted a record, and the session is closed.
C18_Witness ==
    /\ pc = "error"
    /\ result = "exception"
    /\ session = "closed"
    /\ ~cfg.dry_run
    /\ deletions > 0

\* C19: with start_page and max_page both configured, the i-th page scanned
\* is start_page + i - 1 and is not beyond max_page, and no record is logged
\* from a page outside start_page..max_page.
C19_ScannedInWindow ==
    cfg.start_page # None /\ cfg.max_page # None =>
        /\ \A i \in 1..Len(scanned) :
              /\ scanned[i] = cfg.start_page + i - 1
              /\ scanned[i] <= cfg.max_page
        /\ \A e \in Range(log) : cfg.start_page <= e.pg /\ e.pg <= cfg.max_page

====
